---- MODULE Spec2Model ----
(***************************************************************************)
(* Model of RRR_importlist (src/server.js): the batch sync handler          *)
(* POST /api/sync/:target/:name with radarrLookup, radarrGetDefaults,       *)
(* radarrAdd, sonarrLookupImdb and sonarrAdd, the direct add handlers       *)
(* POST /api/add/movie and POST /api/add/series with notifyTelegram, and    *)
(* the image helpers makeImageUrl and makeImageUrlsArray.                   *)
(*                                                                         *)
(* JavaScript values are records tagged by the field t ("undefined",       *)
(* "string", "number", "array", "object"), so that truthiness, `||` and     *)
(* Number() are computed the way the interpreter computes them.             *)
(***************************************************************************)
EXTENDS Integers, Sequences, FiniteSets, TLC

VARIABLES
    env,      \* process.env: the fallback values read by the handlers
    lists,    \* the list store (DATA_FILE): list name -> sequence of items
    spc,      \* position of the sync handler
    target,   \* req.params.target of the sync in progress
    name,     \* req.params.name of the sync in progress
    list,     \* data.lists[name] as loaded by the sync
    idx,      \* 1-based position of the for..of loop over list
    results,  \* the results array of the sync
    sresp,    \* the HTTP response of the sync handler
    movie,    \* the candidate handed to radarrAdd / sonarrAdd
    body,     \* the add request body built for the current item
    error,    \* the error caught by radarrAdd's catch (the add rejection)
    calls,    \* external calls issued for the current item, with their answers
    apc,      \* position of the direct add handler
    areq,     \* req.body of the direct add
    aerr,     \* the error caught by the direct add handler
    aresp,    \* the HTTP response of the direct add handler
    abody,    \* the add request body built by the direct add
    acalls,   \* external calls issued by the direct add, with their answers
    notes,    \* number of Telegram sendMessage attempts
    ipc,      \* position of the image normalisation
    maybeImgs, \* the argument of makeImageUrlsArray
    urls,     \* the value makeImageUrlsArray returned
    lpc,      \* position of each client's list request handler
    lreq,     \* each client's list request (its route, parameters and body)
    ldata,    \* the data object each list handler loaded and changed
    lresp,    \* the HTTP status each list handler answered with (0: none yet)
    qpc,      \* position of the catalog query by IMDb id
    imdbId,   \* the id handed to radarrLookup / sonarrLookupImdb
    sent,     \* the query parameter sent to the catalog
    bpc,      \* position of the bot's callback_query handler
    bdata,    \* query.data of the callback query
    bcalls    \* calls issued by the callback handler, with their answers

svars == <<spc, target, name, list, idx, results, sresp, movie, body, error, calls>>
avars == <<apc, areq, aerr, aresp, abody, acalls, notes>>
ivars == <<ipc, maybeImgs, urls>>
lvars == <<lpc, lreq, ldata, lresp>>
qvars == <<qpc, imdbId, sent>>
bvars == <<bpc, bdata, bcalls>>
vars  == <<env, lists, spc, target, name, list, idx, results, sresp, movie, body,
           error, calls, apc, areq, aerr, aresp, abody, acalls, notes,
           ipc, maybeImgs, urls, lpc, lreq, ldata, lresp, qpc, imdbId, sent,
           bpc, bdata, bcalls>>

(***************************************************************************)
(* Bounds of the model                                                      *)
(***************************************************************************)
MaxItems == 2
MaxImgs  == 2
MaxIdLen == 3

(***************************************************************************)
(* JavaScript values                                                        *)
(***************************************************************************)
Undefined == [t |-> "undefined"]
Str(s)    == [t |-> "string", s |-> s]
Num(n)    == [t |-> "number", n |-> n]
Arr(e)    == [t |-> "array", elems |-> e]
Null      == [t |-> "null"]
\* a string kept as the sequence of its characters
Chars(cs) == [t |-> "chars", cs |-> cs]

\* ToBoolean
Truthy(v) ==
    CASE v.t = "undefined" -> FALSE
      [] v.t = "null"      -> FALSE
      [] v.t = "string"    -> v.s # ""
      [] v.t = "chars"     -> v.cs # <<>>
      [] v.t = "number"    -> v.n # 0
      [] OTHER             -> TRUE

\* v.f of a value that is not undefined: undefined when v has no such property
Prop(v, f) == IF f \in DOMAIN v THEN v[f] ELSE Undefined

\* a || b
Or(a, b) == IF Truthy(a) THEN a ELSE b

\* Number(v) on the numeric strings and numbers the handlers meet
NumeralValue == [s \in {"1", "5", "7", "278"} |->
                   CASE s = "1" -> 1 [] s = "5" -> 5 [] s = "7" -> 7 [] s = "278" -> 278]
Number(v) ==
    CASE v.t = "number" -> v.n
      [] v.t = "string" -> NumeralValue[v.s]

\* the data returned as it came, an array left unwrapped
Unwrapped(d) == d

\* Array.isArray(d) ? d[0] : d
FirstOrSelf(d) ==
    IF d.t = "array"
    THEN (IF Len(d.elems) > 0 THEN d.elems[1] ELSE Undefined)
    ELSE d

\* Array.isArray(d) ? d : []
AsArray(d) == IF d.t = "array" THEN d.elems ELSE <<>>

\* the length test inverted
EmptyArray(d) == d.t = "array" /\ Len(d.elems) = 0
\* Array.isArray(d) && d.length
NonEmptyArray(d) == d.t = "array" /\ Len(d.elems) > 0

\* arr.find(p), hits being the positions of arr that satisfy p: the first
\* element satisfying p, or undefined
Find(arr, hits) ==
    IF hits = {} THEN Undefined
    ELSE arr[CHOOSE i \in hits : \A j \in hits : i <= j]

(***************************************************************************)
(* Answers of the external services                                         *)
(***************************************************************************)
\* An axios call resolves with data, or rejects with an error that carries
\* a response body (HTTP failure) or none (transport failure).
Ok(d)      == [t |-> "ok", data |-> d]
NetErr     == [t |-> "throw", response |-> Undefined, message |-> Str("Network Error")]
HttpErr(d) == [t |-> "throw", response |-> d,
               message |-> Str("Request failed with status code 400")]
TypeErr    == [t |-> "throw", response |-> Undefined,
               message |-> Str("Cannot read properties of undefined")]
Pending    == [t |-> "pending"]

Tmdb      == Num(278)   \* the tmdbId of the title the catalog answers with
OtherTmdb == Num(603)   \* the tmdbId of another title
Cand(id)   == [t |-> "object", tmdbId |-> id, tvdbId |-> Num(81189), stored |-> FALSE]
Stored(id) == [t |-> "object", tmdbId |-> id, tvdbId |-> Num(81189), stored |-> TRUE]

LookupAnswers ==
    { NetErr, Ok(Arr(<<>>)), Ok(Str("")), Ok(Arr(<<Cand(Tmdb)>>)),
      Ok(Cand(Tmdb)), Ok(Arr(<<Cand(Undefined)>>)) }
Lookup2Answers == { NetErr, Ok(Arr(<<>>)), Ok(Arr(<<Cand(Tmdb)>>)) }

RootAnswers == { NetErr, Ok(Arr(<<>>)), Ok(Arr(<<[t |-> "object", path |-> Str("/svc")]>>)) }
QpAnswers   == { NetErr, Ok(Arr(<<>>)), Ok(Arr(<<[t |-> "object", id |-> Num(3)]>>)) }

\* Validation errors of a rejected add
ExistsByCode == [t |-> "object", errorCode |-> "MovieExistsValidator",
                 errorMessage |-> "This movie has already been added",
                 propertyValue |-> Tmdb]
ExistsByMsg  == [t |-> "object", errorCode |-> "Other",
                 errorMessage |-> "Movie has Already Been Added",
                 propertyValue |-> Undefined]
Unrelated    == [t |-> "object", errorCode |-> "PathExistsValidator",
                 errorMessage |-> "Invalid Path",
                 propertyValue |-> Undefined]

\* /already been added/i.test(msg) on the messages above
AlreadyBeenAdded(msg) ==
    msg \in {"This movie has already been added", "Movie has Already Been Added",
             "This series has already been added"}

Rejections ==
    { HttpErr(Arr(<<ExistsByCode>>)), HttpErr(Arr(<<Unrelated, ExistsByMsg>>)),
      HttpErr(Arr(<<Unrelated>>)), HttpErr([t |-> "object", message |-> "Unauthorized"]) }

PostAnswers == { Ok(Stored(Tmdb)), NetErr } \cup Rejections

ByIdAnswers   == { NetErr, Ok(Arr(<<>>)), Ok(Arr(<<Stored(Tmdb)>>)) }
ByTermAnswers == { NetErr, Ok(Arr(<<>>)), Ok(Arr(<<Cand(OtherTmdb)>>)),
                   Ok(Arr(<<Cand(Tmdb)>>)) }
AllAnswers    == { NetErr, Ok(Arr(<<>>)), Ok(Arr(<<Stored(OtherTmdb), Stored(Tmdb)>>)) }

\* Sonarr: a rejected add, the stored series and the series inventory
SeriesExists == [t |-> "object", errorCode |-> "SeriesExistsValidator",
                 errorMessage |-> "This series has already been added",
                 propertyValue |-> Undefined]
SeriesRec    == [t |-> "object", tvdbId |-> Num(81189), imdbId |-> Str("tt0903747"),
                 title |-> Str("Breaking Bad")]
OtherSeries  == [t |-> "object", tvdbId |-> Num(121361), imdbId |-> Str("tt0944947"),
                 title |-> Str("Game of Thrones")]
SeriesPostAnswers ==
    { Ok(SeriesRec), NetErr, HttpErr(Arr(<<SeriesExists>>)), HttpErr(Arr(<<Unrelated>>)) }
SeriesAllAnswers ==
    { NetErr, Ok(Arr(<<>>)), Ok(Arr(<<OtherSeries>>)), Ok(Arr(<<OtherSeries, SeriesRec>>)) }
SendAnswers == { Ok(Undefined), NetErr }

\* s.toLowerCase() on the titles above and on the sources of list items
LowerCase == [s \in {"Breaking Bad", "breaking bad", "Game of Thrones",
                     "IMDB", "tmdb", "tvdb", ""} |->
                CASE s = "Breaking Bad" -> "breaking bad"
                  [] s = "breaking bad" -> "breaking bad"
                  [] s = "Game of Thrones" -> "game of thrones"
                  [] s = "IMDB" -> "imdb"
                  [] s = "tmdb" -> "tmdb"
                  [] s = "tvdb" -> "tvdb"
                  [] s = "" -> ""]

(***************************************************************************)
(* Configuration and the list store                                         *)
(***************************************************************************)
\* An unset environment variable and an empty one are both falsy.
Envs ==
    { [RADARR_ROOT |-> r, RADARR_QUALITY_PROFILE_ID |-> q,
       SONARR_ROOT |-> r, SONARR_ROOT_PATH |-> Undefined,
       SONARR_QUALITY_PROFILE_ID |-> q,
       TELEGRAM_TOKEN |-> k, TELEGRAM_NOTIFY_CHAT_ID |-> c,
       SERVER_PROTOCOL |-> Undefined,
       BASIC_AUTH_USER |-> u.name, BASIC_AUTH_PASS |-> u.pass] :
        r \in {Undefined, Str("/env/media")}, q \in {Undefined, Str("7")},
        k \in {Undefined, Str("k")}, c \in {Undefined, Str("-100")},
        u \in {[name |-> Undefined, pass |-> Undefined],
               [name |-> Str("admin"), pass |-> Str("secret")]} }

Items ==
    { [source |-> "imdb", id |-> "tt0111161"],
      [source |-> "tmdb", id |-> "278"],
      [source |-> "tvdb", id |-> "81189"] }

SeqsUpTo(S, n) == UNION { [1..k -> S] : k \in 0..n }

Targets  == {"radarr", "sonarr", "lidarr"}
ReqNames == {"classics", "missing"}

(***************************************************************************)
(* Pure parts of the sync handler and its helpers                           *)
(***************************************************************************)
\* loadData(): the parsed store
loadData == lists

\* radarrGetDefaults of the sync (second definition): the defaults it
\* returns from the two answers, both resolved.
radarrGetDefaults(rootData, qpData) ==
    LET roots == AsArray(rootData)
        qps   == AsArray(qpData)
    IN  [rootFolderPath |->
            IF Len(roots) > 0 THEN roots[1].path
            ELSE Or(env.RADARR_ROOT, Str("/movies")),
         qualityProfileId |->
            Number(Or(env.RADARR_QUALITY_PROFILE_ID,
                      IF Len(qps) > 0 THEN qps[1].id ELSE Num(1)))]

\* radarrAdd: the request body
RadarrBody(m, defaults) ==
    [tmdbId |-> Prop(m, "tmdbId"),
     rootFolderPath |-> defaults.rootFolderPath,
     qualityProfileId |-> defaults.qualityProfileId,
     monitored |-> TRUE,
     addOptions |-> [searchForMovie |-> TRUE]]

\* sonarrAdd: the request body
SonarrBody(series) ==
    [tvdbId |-> Or(Prop(series, "tvdbId"), Num(0)),
     rootFolderPath |-> Or(env.SONARR_ROOT, env.SONARR_ROOT_PATH),
     qualityProfileId |-> Number(Or(env.SONARR_QUALITY_PROFILE_ID, Num(1))),
     seasonFolder |-> TRUE,
     monitored |-> TRUE,
     addOptions |-> [searchForMissingEpisodes |-> TRUE]]

\* e.errorCode === 'MovieExistsValidator' || /already been added/i.test(e.errorMessage || '')
IsExistsError(e) ==
    e.errorCode = "MovieExistsValidator" \/ AlreadyBeenAdded(e.errorMessage)

\* radarrAdd's catch: the "already exists" entry of the rejection, or
\* undefined when the error has no response body or no such entry.
ExistsErr(err) ==
    IF Truthy(err.response)
    THEN LET errors == AsArray(err.response)
         IN  Find(errors, { i \in 1..Len(errors) : IsExistsError(errors[i]) })
    ELSE Undefined

\* Number(a.tmdbId) === Number(b)
SameTmdb(rec, id) ==
    /\ Truthy(Prop(rec, "tmdbId")) /\ Truthy(id)
    /\ Number(Prop(rec, "tmdbId")) = Number(id)

\* the branches chosen by the target alone, the item's source unchecked
BranchByTarget(t, item) ==
    IF t = "radarr" THEN "radarr"
    ELSE IF t = "sonarr" THEN "sonarr"
    ELSE "unsupported"

\* the branch of the sync loop an item takes
Branch(t, item) ==
    IF t = "radarr" /\ (item.source = "imdb" \/ item.source = "tmdb") THEN "radarr"
    ELSE IF t = "sonarr" /\ item.source = "imdb" THEN "sonarr"
    ELSE "unsupported"

\* the outcomes pushed on results
NotFoundOutcome(item) ==
    [item |-> item, ok |-> FALSE, reason |-> Str("not found"), record |-> Undefined]
UnsupportedOutcome(item) ==
    [item |-> item, ok |-> FALSE, reason |-> Str("unsupported"), record |-> Undefined]
AddedOutcome(item) ==
    [item |-> item, ok |-> TRUE, reason |-> Undefined, record |-> Undefined]
\* reason: err?.response?.data || err.message || 'error'
CatchOutcome(item, err) ==
    [item |-> item, ok |-> FALSE,
     reason |-> Or(Or(err.response, err.message), Str("error")),
     record |-> Undefined]

\* the lookup absent test: !lookup
Absent(lookup) == ~Truthy(lookup)

NoResponse == [status |-> 0, added |-> FALSE, reason |-> Undefined, record |-> Undefined]

\* the item read from the store at each iteration, not from the loaded list
LiveItem ==
    IF name \in DOMAIN lists /\ idx <= Len(lists[name]) THEN lists[name][idx] ELSE list[idx]
\* for (const item of list)
Item == list[idx]

Issue(log, op)  == Append(log, [op |-> op, ans |-> Pending])
Ops(log)        == { log[i].op : i \in 1..Len(log) }
\* the call left in flight: its answer is not awaited
Unawaited(log, a) == log
Answer(log, a)  == [log EXCEPT ![Len(log)].ans = a]

\* results.unshift(o): the outcome put in front
PushFront(o) ==
    /\ results' = <<o>> \o results
    /\ idx' = idx + 1
    /\ spc' = "loop"

\* results.push(o), then the next iteration
Push(o) ==
    /\ results' = Append(results, o)
    /\ idx' = idx + 1
    /\ spc' = "loop"

(***************************************************************************)
(* POST /api/sync/:target/:name, one action per await                       *)
(***************************************************************************)
Start ==
    /\ spc = "idle" /\ target = "" /\ name = ""
    /\ list = <<>> /\ idx = 1 /\ results = <<>>
    /\ sresp = [status |-> 0, results |-> <<>>]
    /\ movie = Undefined /\ body = Undefined /\ error = Undefined /\ calls = <<>>
    /\ apc = "idle" /\ areq = [kind |-> "none"] /\ aerr = Undefined
    /\ aresp = NoResponse /\ abody = Undefined
    /\ acalls = <<>> /\ notes = 0

\* no image is being normalised
NoImage == ipc = "idle" /\ maybeImgs = Undefined /\ urls = <<>>

\* the clients whose list requests may overlap
Clients == {"a", "b"}

\* no list request has arrived
NoListRequest ==
    /\ lpc = [c \in Clients |-> "idle"]
    /\ lreq = [c \in Clients |-> Undefined]
    /\ ldata = [c \in Clients |-> Undefined]
    /\ lresp = [c \in Clients |-> 0]

\* no callback query has reached the bot
NoCallback == bpc = "idle" /\ bdata = Undefined /\ bcalls = <<>>

\* no catalog query by IMDb id is being built
NoQuery == qpc = "idle" /\ imdbId = <<>> /\ sent = Undefined

\* the server is up with a store of one list; no request has arrived
Init ==
    /\ env \in { e \in Envs : /\ Truthy(e.TELEGRAM_TOKEN) /\ Truthy(e.TELEGRAM_NOTIFY_CHAT_ID)
                           /\ ~Truthy(e.BASIC_AUTH_USER) }
    /\ lists \in { [n \in {"classics"} |-> l] : l \in SeqsUpTo(Items, MaxItems) }
    /\ Start /\ NoImage /\ NoListRequest /\ NoCallback /\ NoQuery

\* the request arrives: loadData, then the list or 404
SyncRequest ==
    /\ spc = "idle"
    /\ \E t \in Targets, n \in ReqNames :
        /\ target' = t /\ name' = n
        /\ IF n \in DOMAIN loadData
           THEN /\ list' = loadData[n]
                /\ spc' = "loop"
                /\ sresp' = sresp
           ELSE /\ list' = list
                /\ spc' = "done"
                /\ sresp' = [status |-> 404, results |-> <<>>]
    /\ UNCHANGED <<env, lists, idx, results, movie, body, error, calls>>
    /\ UNCHANGED <<avars, ivars, lvars, qvars, bvars>>

\* the loop is over: res.json({ results })
SyncRespond ==
    /\ spc = "loop" /\ idx > Len(list)
    /\ sresp' = [status |-> 200, results |-> results]
    /\ spc' = "done"
    /\ UNCHANGED <<env, lists, target, name, list, idx, results, movie, body, error, calls>>
    /\ UNCHANGED <<avars, ivars, lvars, qvars, bvars>>

\* the next item: its branch, and the first call of that branch
SyncItem ==
    /\ spc = "loop" /\ idx <= Len(list)
    /\ movie' = Undefined /\ body' = Undefined /\ error' = Undefined
    /\ CASE Branch(target, Item) = "radarr" ->
              /\ calls' = Issue(<<>>, IF Item.source = "imdb"
                                      THEN "GET radarr movie/lookup/imdb"
                                      ELSE "GET radarr movie/lookup/tmdb")
              /\ spc' = "lookup"
              /\ UNCHANGED <<idx, results>>
         [] Branch(target, Item) = "sonarr" ->
              /\ calls' = Issue(<<>>, "GET sonarr series/lookup")
              /\ spc' = "slookup"
              /\ UNCHANGED <<idx, results>>
         [] OTHER ->
              /\ calls' = <<>>
              /\ Push(UnsupportedOutcome(Item))
    /\ UNCHANGED <<env, lists, target, name, list, sresp>>
    /\ UNCHANGED <<avars, ivars, lvars, qvars, bvars>>

\* radarrLookup(item.id) or the tmdb lookup returns
RadarrLookupReturn ==
    /\ spc = "lookup"
    /\ \E a \in LookupAnswers :
        IF a.t = "throw"
        THEN /\ calls' = Answer(calls, a)
             /\ Push(CatchOutcome(Item, a))
             /\ UNCHANGED movie
        ELSE LET lookup == FirstOrSelf(a.data) IN
             IF Absent(lookup)
             THEN /\ calls' = Answer(calls, a)
                  /\ Push(NotFoundOutcome(Item))
                  /\ UNCHANGED movie
             ELSE IF Truthy(Prop(lookup, "tmdbId"))
             THEN /\ movie' = lookup
                  /\ calls' = Issue(Issue(Answer(calls, a), "GET radarr rootfolder"),
                                    "GET radarr qualityprofile")
                  /\ spc' = "defaults"
                  /\ UNCHANGED <<idx, results>>
             ELSE /\ calls' = Issue(Answer(calls, a), "GET radarr movie/lookup/tmdb")
                  /\ spc' = "lookup2"
                  /\ UNCHANGED <<idx, results, movie>>
    /\ UNCHANGED <<env, lists, target, name, list, sresp, body, error>>
    /\ UNCHANGED <<avars, ivars, lvars, qvars, bvars>>

\* the tmdb lookup made for a candidate without tmdbId returns
RadarrLookup2Return ==
    /\ spc = "lookup2"
    /\ \E a \in Lookup2Answers :
        IF a.t = "throw"
        THEN /\ calls' = Answer(calls, a)
             /\ Push(CatchOutcome(Item, a))
             /\ UNCHANGED movie
        ELSE /\ movie' = FirstOrSelf(a.data)
             /\ calls' = Issue(Issue(Answer(calls, a), "GET radarr rootfolder"),
                               "GET radarr qualityprofile")
             /\ spc' = "defaults"
             /\ UNCHANGED <<idx, results>>
    /\ UNCHANGED <<env, lists, target, name, list, sresp, body, error>>
    /\ UNCHANGED <<avars, ivars, lvars, qvars, bvars>>

\* radarrAdd: Promise.all of the two default queries is settled, the body
\* is built and posted
RadarrDefaultsReturn ==
    /\ spc = "defaults"
    /\ \E ra \in RootAnswers, qa \in QpAnswers :
        LET log == [calls EXCEPT ![Len(calls) - 1].ans = ra, ![Len(calls)].ans = qa] IN
        IF ra.t = "throw" \/ qa.t = "throw"
        THEN \* the rejection has no response body: radarrAdd rethrows it
             /\ calls' = log
             /\ Push(CatchOutcome(Item, IF ra.t = "throw" THEN ra ELSE qa))
             /\ UNCHANGED body
        ELSE IF movie.t = "undefined"
        THEN \* movie.tmdbId of undefined: a TypeError, rethrown by radarrAdd
             /\ calls' = log
             /\ Push(CatchOutcome(Item, TypeErr))
             /\ UNCHANGED body
        ELSE /\ body' = RadarrBody(movie, radarrGetDefaults(ra.data, qa.data))
             /\ calls' = Issue(log, "POST radarr movie")
             /\ spc' = "post"
             /\ UNCHANGED <<idx, results>>
    /\ UNCHANGED <<env, lists, target, name, list, sresp, movie, error>>
    /\ UNCHANGED <<avars, ivars, lvars, qvars, bvars>>

\* radarrAdd: the add answers; a rejection that says "already exists"
\* starts the search for the stored movie
RadarrPostReturn ==
    /\ spc = "post"
    /\ \E a \in PostAnswers :
        /\ IF a.t = "ok"
           THEN /\ calls' = Answer(calls, a)
                /\ Push(AddedOutcome(Item))
                /\ UNCHANGED error
           ELSE IF Truthy(ExistsErr(a))
           THEN /\ error' = a
                /\ calls' = Issue(Answer(calls, a), "GET radarr movie?tmdbId")
                /\ spc' = "rec1"
                /\ UNCHANGED <<idx, results>>
           ELSE /\ calls' = Answer(calls, a)
                /\ Push(CatchOutcome(Item, a))
                /\ UNCHANGED error
    /\ UNCHANGED <<env, lists, target, name, list, sresp, movie, body>>
    /\ UNCHANGED <<avars, ivars, lvars, qvars, bvars>>

\* const tmdbId = movie.tmdbId || existsErr.formattedMessagePlaceholderValues?.propertyValue
RecTmdbId == Or(Prop(movie, "tmdbId"), Prop(ExistsErr(error), "propertyValue"))

\* first attempt: GET /api/v3/movie?tmdbId=...
RadarrByIdReturn ==
    /\ spc = "rec1"
    /\ \E a \in ByIdAnswers :
        IF a.t = "throw"
        THEN /\ calls' = Answer(calls, a)
             /\ Push(CatchOutcome(Item, error))
        ELSE IF NonEmptyArray(a.data)
        THEN /\ calls' = Answer(calls, a)
             /\ Push(AddedOutcome(Item))
        ELSE /\ calls' = Issue(Answer(calls, a), "GET radarr movie/lookup?term")
             /\ spc' = "rec2"
             /\ UNCHANGED <<idx, results>>
    /\ UNCHANGED <<env, lists, target, name, list, sresp, movie, body, error>>
    /\ UNCHANGED <<avars, ivars, lvars, qvars, bvars>>

\* fallback: the lookup endpoint, filtered for the tmdbId
RadarrByTermReturn ==
    /\ spc = "rec2"
    /\ \E a \in ByTermAnswers :
        IF a.t = "throw"
        THEN /\ calls' = Answer(calls, a)
             /\ Push(CatchOutcome(Item, error))
        ELSE LET found == AsArray(a.data)
                 match == Find(found, { i \in 1..Len(found) :
                                          SameTmdb(found[i], RecTmdbId) })
             IN  /\ calls' = Issue(Answer(calls, a), "GET radarr movie")
                 /\ spc' = IF Truthy(match) THEN "rec2all" ELSE "rec3"
                 /\ UNCHANGED <<idx, results>>
    /\ UNCHANGED <<env, lists, target, name, list, sresp, movie, body, error>>
    /\ UNCHANGED <<avars, ivars, lvars, qvars, bvars>>

\* the lookup matched: all movies are fetched for the stored object, and
\* the stored object or the match is returned
RadarrMatchAllReturn ==
    /\ spc = "rec2all"
    /\ \E a \in AllAnswers :
        /\ calls' = Answer(calls, a)
        /\ IF a.t = "throw"
           THEN Push(CatchOutcome(Item, error))
           ELSE Push(AddedOutcome(Item))
    /\ UNCHANGED <<env, lists, target, name, list, sresp, movie, body, error>>
    /\ UNCHANGED <<avars, ivars, lvars, qvars, bvars>>

\* last resort: all movies are fetched and searched locally
RadarrAllReturn ==
    /\ spc = "rec3"
    /\ \E a \in AllAnswers :
        /\ calls' = Answer(calls, a)
        /\ IF a.t = "throw"
           THEN Push(CatchOutcome(Item, error))
           ELSE LET all == AsArray(a.data)
                    stored == Find(all, { i \in 1..Len(all) :
                                            SameTmdb(all[i], Prop(movie, "tmdbId")) })
                IN  IF Truthy(stored)
                    THEN Push(AddedOutcome(Item))
                    ELSE Push(CatchOutcome(Item, error))
    /\ UNCHANGED <<env, lists, target, name, list, sresp, movie, body, error>>
    /\ UNCHANGED <<avars, ivars, lvars, qvars, bvars>>

\* sonarrLookupImdb returns; its catch turns a failure into undefined
SonarrLookupReturn ==
    /\ spc = "slookup"
    /\ \E a \in LookupAnswers :
        LET lookup == IF a.t = "throw" THEN Undefined ELSE FirstOrSelf(a.data) IN
        IF Absent(lookup)
        THEN /\ calls' = Answer(calls, a)
             /\ Push(NotFoundOutcome(Item))
             /\ UNCHANGED <<movie, body>>
        ELSE /\ movie' = lookup
             /\ body' = SonarrBody(lookup)
             /\ calls' = Issue(Answer(calls, a), "POST sonarr series")
             /\ spc' = "spost"
             /\ UNCHANGED <<idx, results>>
    /\ UNCHANGED <<env, lists, target, name, list, sresp, error>>
    /\ UNCHANGED <<avars, ivars, lvars, qvars, bvars>>

\* sonarrAdd returns; its catch turns a failure into undefined
SonarrPostReturn ==
    /\ spc = "spost"
    /\ \E a \in SeriesPostAnswers :
        /\ calls' = Answer(calls, a)
        /\ Push(AddedOutcome(Item))
    /\ UNCHANGED <<env, lists, target, name, list, sresp, movie, body, error>>
    /\ UNCHANGED <<avars, ivars, lvars, qvars, bvars>>

Next ==
    \/ SyncRequest
    \/ SyncRespond
    \/ SyncItem
    \/ RadarrLookupReturn
    \/ RadarrLookup2Return
    \/ RadarrDefaultsReturn
    \/ RadarrPostReturn
    \/ RadarrByIdReturn
    \/ RadarrByTermReturn
    \/ RadarrMatchAllReturn
    \/ RadarrAllReturn
    \/ SonarrLookupReturn
    \/ SonarrPostReturn

Spec == Init /\ [][Next]_vars

(***************************************************************************)
(* POST /api/add/movie and POST /api/add/series                             *)
(***************************************************************************)
\* a && b
And(a, b) == IF Truthy(a) THEN b ELSE a

\* arr[0]
First(elems) == IF Len(elems) > 0 THEN elems[1] ELSE Undefined

\* radarrGetDefaults of the add endpoints (first definition): the lists the
\* service returned, or two empty lists when either query failed
radarrGetDefaults_meta(ra, qa) ==
    IF ra.t = "throw" \/ qa.t = "throw"
    THEN [rootFolders |-> <<>>, qualityProfiles |-> <<>>]
    ELSE [rootFolders |-> AsArray(ra.data), qualityProfiles |-> AsArray(qa.data)]

\* sonarrGetDefaults: the same against Sonarr
sonarrGetDefaults(ra, qa) ==
    IF ra.t = "throw" \/ qa.t = "throw"
    THEN [rootFolders |-> <<>>, qualityProfiles |-> <<>>]
    ELSE [rootFolders |-> AsArray(ra.data), qualityProfiles |-> AsArray(qa.data)]

\* add/movie: root and qp
MovieRoot(req, meta) ==
    Or(req.rootFolderPath,
       Or(And(First(meta.rootFolders), Prop(First(meta.rootFolders), "path")),
          Or(env.RADARR_ROOT, Str("/movies"))))
MovieQp(req, meta) ==
    Number(Or(req.qualityProfileId,
              Or(env.RADARR_QUALITY_PROFILE_ID,
                 Or(And(First(meta.qualityProfiles), Prop(First(meta.qualityProfiles), "id")),
                    Num(1)))))

\* add/series: root and qp
SeriesRoot(req, meta) ==
    Or(req.rootFolderPath,
       Or(And(First(meta.rootFolders), Prop(First(meta.rootFolders), "path")),
          Or(env.SONARR_ROOT, Str("/tv"))))
SeriesQp(req, meta) ==
    Number(Or(req.qualityProfileId,
              Or(env.SONARR_QUALITY_PROFILE_ID,
                 Or(And(First(meta.qualityProfiles), Prop(First(meta.qualityProfiles), "id")),
                    Num(1)))))

\* add/movie: the request body
MovieBody(req, meta) ==
    [tmdbId |-> Num(Number(req.tmdbId)),
     rootFolderPath |-> MovieRoot(req, meta),
     qualityProfileId |-> MovieQp(req, meta),
     monitored |-> TRUE,
     addOptions |-> [searchForMovie |-> TRUE]]

\* add/series: the request body (it has no addOptions)
SeriesBody(req, meta) ==
    [tvdbId |-> IF Truthy(req.tvdbId) THEN Num(Number(req.tvdbId)) ELSE Undefined,
     imdbId |-> IF Truthy(req.imdbId) THEN req.imdbId ELSE Undefined,
     title  |-> IF Truthy(req.title) /\ ~Truthy(req.tvdbId) /\ ~Truthy(req.imdbId)
                THEN req.title ELSE Undefined,
     rootFolderPath |-> SeriesRoot(req, meta),
     qualityProfileId |-> SeriesQp(req, meta),
     monitored |-> TRUE,
     seasonFolder |-> TRUE]

\* add/series: the match predicate of all.data.find
SeriesMatch(req, s) ==
    \/ Truthy(req.tvdbId) /\ Number(s.tvdbId) = Number(req.tvdbId)
    \/ Truthy(req.imdbId) /\ s.imdbId = req.imdbId
    \/ /\ Truthy(req.title) /\ Truthy(s.title)
       /\ LowerCase[s.title.s] = LowerCase[req.title.s]

\* notifyTelegram: whether it sends at all
NotifyEnabled == Truthy(env.TELEGRAM_TOKEN) /\ Truthy(env.TELEGRAM_NOTIFY_CHAT_ID)

Added(rec)      == [status |-> 200, added |-> TRUE, reason |-> Undefined, record |-> rec]
Exists(rec)     == [status |-> 200, added |-> FALSE, reason |-> Str("exists"), record |-> rec]
AddFailed       == [status |-> 500, added |-> FALSE, reason |-> Undefined, record |-> Undefined]
BadRequest      == [status |-> 400, added |-> FALSE, reason |-> Undefined, record |-> Undefined]

MovieReqs ==
    { [kind |-> "movie", tmdbId |-> i, rootFolderPath |-> r, qualityProfileId |-> q] :
        i \in {Undefined, Str("278")}, r \in {Undefined, Str("/ovr")},
        q \in {Undefined, Num(5)} }
SeriesReqs ==
    { [kind |-> "series", tvdbId |-> i, imdbId |-> Undefined, title |-> n,
       rootFolderPath |-> r, qualityProfileId |-> q] :
        i \in {Undefined, Num(81189)}, n \in {Undefined, Str("breaking bad")},
        r \in {Undefined, Str("/ovr")}, q \in {Undefined, Num(5)} }

Respond(r) == aresp' = r /\ apc' = "done"

\* the server is up; no request has arrived
InitAdd ==
    /\ env \in { e \in Envs : ~Truthy(e.BASIC_AUTH_USER) }
    /\ lists = [n \in {"classics"} |-> <<>>]
    /\ Start /\ NoImage /\ NoListRequest /\ NoCallback /\ NoQuery

\* add/movie: the request arrives; 400 or the two default queries
AddMovieRequest ==
    /\ apc = "idle"
    /\ \E req \in MovieReqs :
        /\ areq' = req
        /\ IF ~Truthy(req.tmdbId)
           THEN Respond(BadRequest) /\ UNCHANGED acalls
           ELSE /\ acalls' = Issue(Issue(acalls, "GET radarr rootfolder"),
                                   "GET radarr qualityprofile")
                /\ apc' = "mdefaults"
                /\ UNCHANGED aresp
    /\ UNCHANGED <<aerr, abody, notes, env, lists>>
    /\ UNCHANGED <<svars, ivars, lvars, qvars, bvars>>

\* add/movie: radarrGetDefaults returns, the body is built and posted
AddMovieDefaultsReturn ==
    /\ apc = "mdefaults"
    /\ \E ra \in RootAnswers, qa \in QpAnswers :
        /\ abody' = MovieBody(areq, radarrGetDefaults_meta(ra, qa))
        /\ acalls' = Issue([acalls EXCEPT ![Len(acalls) - 1].ans = ra,
                                          ![Len(acalls)].ans = qa],
                           "POST radarr movie")
    /\ apc' = "mpost"
    /\ UNCHANGED <<areq, aerr, aresp, notes, env, lists>>
    /\ UNCHANGED <<svars, ivars, lvars, qvars, bvars>>

\* add/movie: the add answers: notify and respond, or the catch block
AddMoviePostReturn ==
    /\ apc = "mpost"
    /\ \E a \in PostAnswers :
        IF a.t = "ok"
        THEN /\ UNCHANGED aerr
             /\ IF NotifyEnabled
                THEN /\ acalls' = Issue(Answer(acalls, a), "POST telegram sendMessage")
                     /\ notes' = notes + 1
                     /\ apc' = "mnotify"
                     /\ UNCHANGED aresp
                ELSE /\ acalls' = Answer(acalls, a)
                     /\ Respond(Added(a.data))
                     /\ UNCHANGED notes
        ELSE /\ aerr' = a
             /\ UNCHANGED notes
             /\ IF Truthy(ExistsErr(a))
                THEN /\ acalls' = Issue(Answer(acalls, a), "GET radarr movie?tmdbId")
                     /\ apc' = "mrec"
                     /\ UNCHANGED aresp
                ELSE /\ acalls' = Answer(acalls, a)
                     /\ Respond(AddFailed)
    /\ UNCHANGED <<areq, abody, env, lists>>
    /\ UNCHANGED <<svars, ivars, lvars, qvars, bvars>>

\* add/movie: a failed send raised into the handler's catch block
AddMovieNotifyRaises ==
    /\ apc = "mnotify"
    /\ \E a \in SendAnswers :
        /\ acalls' = Answer(acalls, a)
        /\ IF a.t = "throw" THEN Respond(AddFailed)
           ELSE Respond(Added(acalls[Len(acalls) - 1].ans.data))
    /\ UNCHANGED <<areq, aerr, abody, notes, env, lists>>
    /\ UNCHANGED <<svars, ivars, lvars, qvars, bvars>>

\* add/movie: notifyTelegram is over, whatever the send answered
AddMovieNotifyReturn ==
    /\ apc = "mnotify"
    /\ \E a \in SendAnswers :
        /\ acalls' = Answer(acalls, a)
        /\ Respond(Added(acalls[Len(acalls) - 1].ans.data))
    /\ UNCHANGED <<areq, aerr, abody, notes, env, lists>>
    /\ UNCHANGED <<svars, ivars, lvars, qvars, bvars>>

\* add/movie: the query for the existing movie answers
AddMovieExistingReturn ==
    /\ apc = "mrec"
    /\ \E a \in ByIdAnswers :
        /\ acalls' = Answer(acalls, a)
        /\ IF a.t = "ok" /\ NonEmptyArray(a.data)
           THEN Respond(Exists(a.data.elems[1]))
           ELSE Respond(AddFailed)
    /\ UNCHANGED <<areq, aerr, abody, notes, env, lists>>
    /\ UNCHANGED <<svars, ivars, lvars, qvars, bvars>>

\* add/series: the request arrives; 400 or the two default queries
AddSeriesRequest ==
    /\ apc = "idle"
    /\ \E req \in SeriesReqs :
        /\ areq' = req
        /\ IF ~Truthy(req.tvdbId) /\ ~Truthy(req.imdbId) /\ ~Truthy(req.title)
           THEN Respond(BadRequest) /\ UNCHANGED acalls
           ELSE /\ acalls' = Issue(Issue(acalls, "GET sonarr rootfolder"),
                                   "GET sonarr qualityprofile")
                /\ apc' = "sdefaults"
                /\ UNCHANGED aresp
    /\ UNCHANGED <<aerr, abody, notes, env, lists>>
    /\ UNCHANGED <<svars, ivars, lvars, qvars, bvars>>

\* add/series: sonarrGetDefaults returns, the body is built and posted
AddSeriesDefaultsReturn ==
    /\ apc = "sdefaults"
    /\ \E ra \in RootAnswers, qa \in QpAnswers :
        /\ abody' = SeriesBody(areq, sonarrGetDefaults(ra, qa))
        /\ acalls' = Issue([acalls EXCEPT ![Len(acalls) - 1].ans = ra,
                                          ![Len(acalls)].ans = qa],
                           "POST sonarr series")
    /\ apc' = "spost"
    /\ UNCHANGED <<areq, aerr, aresp, notes, env, lists>>
    /\ UNCHANGED <<svars, ivars, lvars, qvars, bvars>>

\* add/series: the add answers: notify and respond, or the catch block,
\* which fetches the inventory for any rejection that has a response body
AddSeriesPostReturn ==
    /\ apc = "spost"
    /\ \E a \in SeriesPostAnswers :
        IF a.t = "ok"
        THEN /\ UNCHANGED aerr
             /\ IF NotifyEnabled
                THEN /\ acalls' = Issue(Answer(acalls, a), "POST telegram sendMessage")
                     /\ notes' = notes + 1
                     /\ apc' = "snotify"
                     /\ UNCHANGED aresp
                ELSE /\ acalls' = Answer(acalls, a)
                     /\ Respond(Added(a.data))
                     /\ UNCHANGED notes
        ELSE /\ aerr' = a
             /\ UNCHANGED notes
             /\ IF Truthy(a.response)
                THEN /\ acalls' = Issue(Answer(acalls, a), "GET sonarr series")
                     /\ apc' = "srec"
                     /\ UNCHANGED aresp
                ELSE /\ acalls' = Answer(acalls, a)
                     /\ Respond(AddFailed)
    /\ UNCHANGED <<areq, abody, env, lists>>
    /\ UNCHANGED <<svars, ivars, lvars, qvars, bvars>>

\* add/series: notifyTelegram is over, whatever the send answered
AddSeriesNotifyReturn ==
    /\ apc = "snotify"
    /\ \E a \in SendAnswers :
        /\ acalls' = Answer(acalls, a)
        /\ Respond(Added(acalls[Len(acalls) - 1].ans.data))
    /\ UNCHANGED <<areq, aerr, abody, notes, env, lists>>
    /\ UNCHANGED <<svars, ivars, lvars, qvars, bvars>>

\* add/series: the inventory answers and is searched for the series
AddSeriesExistingReturn ==
    /\ apc = "srec"
    /\ \E a \in SeriesAllAnswers :
        /\ acalls' = Answer(acalls, a)
        /\ IF a.t = "throw"
           THEN Respond(AddFailed)
           ELSE LET all == AsArray(a.data)
                    match == Find(all, { i \in 1..Len(all) : SeriesMatch(areq, all[i]) })
                IN  IF Truthy(match) THEN Respond(Exists(match)) ELSE Respond(AddFailed)
    /\ UNCHANGED <<areq, aerr, abody, notes, env, lists>>
    /\ UNCHANGED <<svars, ivars, lvars, qvars, bvars>>

NextAdd ==
    \/ AddMovieRequest
    \/ AddMovieDefaultsReturn
    \/ AddMoviePostReturn
    \/ AddMovieNotifyReturn
    \/ AddMovieExistingReturn
    \/ AddSeriesRequest
    \/ AddSeriesDefaultsReturn
    \/ AddSeriesPostReturn
    \/ AddSeriesNotifyReturn
    \/ AddSeriesExistingReturn

SpecAdd == InitAdd /\ [][NextAdd]_vars

(***************************************************************************)
(* Image helpers: makeImageUrl and makeImageUrlsArray                       *)
(***************************************************************************)
\* the prefixes tested by makeImageUrl, the default protocol and the CDN base
Http     == <<"h", "t", "t", "p", ":", "/", "/">>
Https    == <<"h", "t", "t", "p", "s", ":", "/", "/">>
Slashes  == <<"/", "/">>
Slash    == <<"/">>
HttpsColon == <<"h", "t", "t", "p", "s", ":">>
CdnBase  == <<"h", "t", "t", "p", "s", ":", "/", "/", "i", "m", "a", "g", "e", ".", "t", "m", "d", "b", ".", "o", "r", "g", "/", "t", "/", "p", "/", "w", "5", "0", "0">>

\* sample strings
XJpg     == <<"/", "x", ".", "j", "p", "g">>
ABPng    == <<"/", "a", "/", "b", ".", "p", "n", "g">>
Padded   == <<" ", "/", "x", ".", "j", "p", "g", " ">>
Blank    == <<" ", " ">>
Relative == <<"x", ".", "j", "p", "g">>
Absolute == <<"h", "t", "t", "p", "s", ":", "/", "/", "h", "/", "a", ".", "p", "n", "g">>
ProtoRel == <<"/", "/", "h", "/", "x", ".", "j", "p", "g">>
ObjectObject == <<"[", "o", "b", "j", "e", "c", "t", " ", "O", "b", "j", "e", "c", "t", "]">>

\* s.startsWith(p)
StartsWith(cs, p) == Len(cs) >= Len(p) /\ SubSeq(cs, 1, Len(p)) = p

\* s.trim(), the white space of the samples being the space
Trim(cs) ==
    LET inked == { i \in 1..Len(cs) : cs[i] # " " } IN
    IF inked = {} THEN <<>>
    ELSE SubSeq(cs, CHOOSE i \in inked : \A j \in inked : i <= j,
                    CHOOSE i \in inked : \A j \in inked : i >= j)

\* String(v) of a string, of the number 5 and of a plain object
String(v) ==
    CASE v.t = "chars"  -> v.cs
      [] v.t = "number" -> <<"5">>
      [] v.t = "object" -> ObjectObject

\* typeof v === 'object'
IsObject(v) == v.t \in {"object", "array", "null"}

Thrown == [t |-> "thrown"]

\* the try block left by an exception: the catch block returns null
Caught(v) == IF v = Thrown THEN Null ELSE v

\* img.remoteUrl || img.url || img.coverUrl || img.posterPath ||
\* img.backdropPath || img.path || img.imagePath; reading a property of
\* null throws
ImageField(img) ==
    IF img.t = "null" THEN Thrown
    ELSE Or(Prop(img, "remoteUrl"), Or(Prop(img, "url"), Or(Prop(img, "coverUrl"),
         Or(Prop(img, "posterPath"), Or(Prop(img, "backdropPath"),
         Or(Prop(img, "path"), Prop(img, "imagePath")))))))

\* the tail of makeImageUrl, from String(img).trim()
Absolutize(v) ==
    LET str == Trim(String(v)) IN
    IF str = <<>> THEN Null
    ELSE IF StartsWith(str, Http) \/ StartsWith(str, Https) THEN Chars(str)
    ELSE IF StartsWith(str, Slashes)
         THEN Chars((IF Truthy(env.SERVER_PROTOCOL) THEN env.SERVER_PROTOCOL.cs
                     ELSE HttpsColon) \o str)
    ELSE IF StartsWith(str, Slash) THEN Chars(CdnBase \o str)
    ELSE Chars(str)

makeImageUrl(img) ==
    IF ~Truthy(img) THEN Null
    ELSE LET first  == IF img.t = "array" /\ Len(img.elems) > 0 THEN img.elems[1] ELSE img
             picked == IF IsObject(first) THEN ImageField(first) ELSE first
         IN  Caught(IF picked = Thrown THEN Thrown
                    ELSE IF ~Truthy(picked) THEN Null
                    ELSE Absolutize(picked))

\* the candidate of makeImageUrlsArray read without posterPath
CandidateNoPoster(o) ==
    Or(Prop(o, "remoteUrl"), Or(Prop(o, "url"), Or(Prop(o, "coverUrl"),
    Or(Prop(o, "backdropPath"), Prop(o, "path")))))

\* maybeImgs.remoteUrl || maybeImgs.url || maybeImgs.coverUrl ||
\* maybeImgs.posterPath || maybeImgs.backdropPath || maybeImgs.path
Candidate(o) ==
    Or(Prop(o, "remoteUrl"), Or(Prop(o, "url"), Or(Prop(o, "coverUrl"),
    Or(Prop(o, "posterPath"), Or(Prop(o, "backdropPath"), Prop(o, "path"))))))

\* v ? [v] : []
OneOrNone(v) == IF Truthy(v) THEN <<v>> ELSE <<>>

makeImageUrlsArray(imgs) ==
    IF ~Truthy(imgs) THEN <<>>
    ELSE IF imgs.t = "array"
    THEN SelectSeq([i \in 1..Len(imgs.elems) |-> makeImageUrl(imgs.elems[i])],
                   LAMBDA v : Truthy(v))
    ELSE IF IsObject(imgs) THEN OneOrNone(makeImageUrl(Candidate(imgs)))
    ELSE OneOrNone(makeImageUrl(Chars(String(imgs))))

\* image records as the lookups return them, and malformed ones
Poster(cs) == [t |-> "object", posterPath |-> Chars(cs)]
ImageRecords ==
    { Poster(XJpg), Poster(ABPng),
      [t |-> "object", coverType |-> Chars(<<"p">>), posterPath |-> Chars(XJpg)],
      [t |-> "object", coverType |-> Chars(<<"p">>)],
      [t |-> "object", posterPath |-> Chars(XJpg), backdropPath |-> Chars(ABPng)],
      [t |-> "object", url |-> Chars(Relative), remoteUrl |-> Chars(Absolute)],
      [t |-> "object", imagePath |-> Chars(XJpg)],
      [t |-> "object", url |-> [t |-> "object"]] }
ImageStrings == { Chars(<<>>), Chars(Blank), Chars(XJpg), Chars(Padded),
                  Chars(ProtoRel), Chars(Absolute) }
ImageElements ==
    ImageRecords \cup ImageStrings
      \cup { Null, Num(5), Arr(<<>>), Arr(<<Null>>), Arr(<<Chars(ABPng), Chars(XJpg)>>) }
ImageInputs ==
    { Undefined, Null, Num(5) } \cup ImageRecords \cup ImageStrings
      \cup { Arr(e) : e \in SeqsUpTo(ImageElements, MaxImgs) }

ImageEnvs ==
    { [RADARR_ROOT |-> Undefined, RADARR_QUALITY_PROFILE_ID |-> Undefined,
       SONARR_ROOT |-> Undefined, SONARR_ROOT_PATH |-> Undefined,
       SONARR_QUALITY_PROFILE_ID |-> Undefined,
       TELEGRAM_TOKEN |-> Undefined, TELEGRAM_NOTIFY_CHAT_ID |-> Undefined,
       BASIC_AUTH_USER |-> Undefined, BASIC_AUTH_PASS |-> Undefined,
       SERVER_PROTOCOL |-> p] : p \in {Undefined, Chars(<<"h", "t", "t", "p", ":">>)} }

\* a lookup result holds some images; nothing is normalised yet
InitImg ==
    /\ env \in ImageEnvs
    /\ lists = [n \in {"classics"} |-> <<>>]
    /\ Start /\ NoListRequest /\ NoCallback /\ NoQuery
    /\ ipc = "idle" /\ maybeImgs \in ImageInputs /\ urls = <<>>

\* const images = makeImageUrlsArray(imgs)
Normalize ==
    /\ ipc = "idle"
    /\ urls' = makeImageUrlsArray(maybeImgs)
    /\ ipc' = "done"
    /\ UNCHANGED <<env, lists, maybeImgs, svars, avars, lvars, qvars, bvars>>

NextImg == Normalize

SpecImg == InitImg /\ [][NextImg]_vars

(***************************************************************************)
(* The list endpoints: POST /api/lists, POST /api/lists/:name/items and     *)
(* DELETE /api/lists/:name/items/:index, one action per await               *)
(***************************************************************************)
\* basicAuth(req): the credentials of the Authorization header, if any
AuthHeaders ==
    IF Truthy(env.BASIC_AUTH_USER)
    THEN {Undefined,
          [t |-> "object", name |-> Str("admin"), pass |-> Str("secret")],
          [t |-> "object", name |-> Str("admin"), pass |-> Str("wrong")]}
    ELSE {Undefined}

\* requireBasicAuth: next() or the 401 answer
requireBasicAuth(user) ==
    IF ~Truthy(env.BASIC_AUTH_USER) THEN "next"
    ELSE IF /\ Truthy(user)
            /\ user.name = env.BASIC_AUTH_USER
            /\ user.pass = env.BASIC_AUTH_PASS
         THEN "next"
         ELSE "401"

\* req.body of an add-item request; a source that is a number has no
\* toLowerCase
ItemBodies ==
    { [source |-> Str("IMDB"), id |-> Str("tt0111161")],
      [source |-> Str("tvdb"), id |-> Str("81189")],
      [source |-> Undefined,   id |-> Str("278")],
      [source |-> Str("tmdb"), id |-> Undefined],
      [source |-> Str(""),     id |-> Str("278")],
      [source |-> Str("tmdb"), id |-> Str("")],
      [source |-> Num(5),      id |-> Str("278")] }

ListNames == {"classics", "kids"}
\* req.params.index: always text
Indices   == {"0", "1", "7", "-1", "abc", " "}

\* the requests to the three routes
ListRequests(auths) ==
    { [op |-> "create", name |-> n, source |-> Undefined, id |-> Undefined,
       index |-> "", auth |-> a] :
        n \in {Undefined} \cup { Str(m) : m \in ListNames }, a \in auths }
    \cup
    { [op |-> "add", name |-> Str(m), source |-> b.source, id |-> b.id,
       index |-> "", auth |-> a] :
        m \in ListNames, b \in ItemBodies, a \in auths }
    \cup
    { [op |-> "delete", name |-> Str(m), source |-> Undefined, id |-> Undefined,
       index |-> i, auth |-> a] :
        m \in ListNames, i \in Indices, a \in auths }

\* Number(req.params.index): NaN for text that is no numeral, 0 for blank text
NaN == [t |-> "NaN"]
NumberOfIndex(s) ==
    CASE s = "0"  -> Num(0)
      [] s = "1"  -> Num(1)
      [] s = "7"  -> Num(7)
      [] s = "-1" -> Num(-1)
      [] s = " "  -> Num(0)
      [] OTHER    -> NaN

\* data.lists[name] as a condition: an array, even an empty one, is truthy
NonEmptyList(data, n) == n \in DOMAIN data /\ data[n] # <<>>
HasList(data, n) == n \in DOMAIN data

\* !source || !id
IdRequired(req) == ~Truthy(req.id)
ItemRequired(req) == ~Truthy(req.source) \/ ~Truthy(req.id)

\* Number.isNaN(idx) || idx < 0 || idx >= list.length
InvalidIndex(i, l) == i.t = "NaN" \/ i.n < 0 \/ i.n >= Len(l)

\* data.lists[name] = []
CreateList(data, n) ==
    [m \in DOMAIN data \cup {n} |-> IF m = n THEN <<>> ELSE data[m]]

\* list.push({ source: source.toLowerCase(), id, date }); the date is left out
PushItem(data, n, req) ==
    [data EXCEPT ![n] = Append(@, [source |-> LowerCase[req.source.s], id |-> req.id.s])]

\* list.splice(idx, 1) with idx counted from 0
Splice(l, i) == SubSeq(l, 1, i) \o SubSeq(l, i + 2, Len(l))

\* what a handler does before it awaits loadData: an early answer or none (0)
BeforeLoad(req) ==
    CASE req.op = "create" -> IF ~Truthy(req.name) THEN 400 ELSE 0
      [] req.op = "add"    -> IF ItemRequired(req) THEN 400 ELSE 0
      [] OTHER             -> 0

\* what a handler does between loadData and saveData: an answer, an
\* exception, or the changed data object to save
Answered(status) == [next |-> "respond", status |-> status, data |-> Undefined]
Raised           == [next |-> "throw", status |-> 0, data |-> Undefined]
ToSave(data)     == [next |-> "save", status |-> 0, data |-> data]
AfterLoad(req, data) ==
    CASE req.op = "create" ->
           IF HasList(data, req.name.s) THEN Answered(400)
           ELSE ToSave(CreateList(data, req.name.s))
      [] req.op = "add" ->
           IF ~HasList(data, req.name.s) THEN Answered(404)
           ELSE IF req.source.t # "string" THEN Raised
           ELSE ToSave(PushItem(data, req.name.s, req))
      [] OTHER ->
           IF ~HasList(data, req.name.s) THEN Answered(404)
           ELSE IF InvalidIndex(NumberOfIndex(req.index), data[req.name.s])
                THEN Answered(400)
                ELSE ToSave([data EXCEPT ![req.name.s] =
                                Splice(@, NumberOfIndex(req.index).n)])

\* a request arrives at one of the three routes, none of which is registered
\* with requireBasicAuth; the handler runs up to its await of loadData
ListRequest(c) ==
    /\ lpc[c] = "idle"
    /\ \E req \in ListRequests(AuthHeaders) :
        /\ req.op = "add" /\ req.name.s \in DOMAIN lists
              => Len(lists[req.name.s]) < MaxItems
        /\ lreq' = [lreq EXCEPT ![c] = req]
        /\ IF BeforeLoad(req) # 0
           THEN /\ lresp' = [lresp EXCEPT ![c] = BeforeLoad(req)]
                /\ lpc' = [lpc EXCEPT ![c] = "done"]
           ELSE /\ lresp' = lresp
                /\ lpc' = [lpc EXCEPT ![c] = "loading"]
    /\ UNCHANGED <<env, lists, ldata, svars, avars, ivars, qvars, bvars>>

\* loadData resolves; the handler runs up to its answer, its exception or its
\* await of saveData. The catch of the handler only logs.
ListLoaded(c) ==
    /\ lpc[c] = "loading"
    /\ LET r == AfterLoad(lreq[c], loadData) IN
        /\ ldata' = [ldata EXCEPT ![c] = r.data]
        /\ lresp' = [lresp EXCEPT ![c] = r.status]
        /\ lpc' = [lpc EXCEPT ![c] =
                     CASE r.next = "respond" -> "done"
                       [] r.next = "throw"   -> "hung"
                       [] OTHER              -> "saving"]
    /\ UNCHANGED <<env, lists, lreq, svars, avars, ivars, qvars, bvars>>

\* saveData resolves, then res.json({ ok: true }); or writeFile rejects and
\* the catch of the handler only logs
ListSaved(c) ==
    /\ lpc[c] = "saving"
    /\ \/ /\ lists' = ldata[c]
          /\ lresp' = [lresp EXCEPT ![c] = 200]
          /\ lpc' = [lpc EXCEPT ![c] = "done"]
       \/ /\ lists' = lists
          /\ lresp' = lresp
          /\ lpc' = [lpc EXCEPT ![c] = "hung"]
    /\ UNCHANGED <<env, lreq, ldata, svars, avars, ivars, qvars, bvars>>

\* the handler is over; the client's next request may arrive
ListAgain(c) ==
    /\ lpc[c] \in {"done", "hung"}
    /\ lpc' = [lpc EXCEPT ![c] = "idle"]
    /\ lreq' = [lreq EXCEPT ![c] = Undefined]
    /\ ldata' = [ldata EXCEPT ![c] = Undefined]
    /\ lresp' = [lresp EXCEPT ![c] = 0]
    /\ UNCHANGED <<env, lists, svars, avars, ivars, qvars, bvars>>

\* the environments of the list endpoints: with and without BASIC_AUTH_USER
ListEnvs ==
    { e \in Envs : /\ ~Truthy(e.RADARR_ROOT) /\ ~Truthy(e.RADARR_QUALITY_PROFILE_ID)
                   /\ ~Truthy(e.TELEGRAM_TOKEN) /\ ~Truthy(e.TELEGRAM_NOTIFY_CHAT_ID) }

\* the server is up with an empty store ({ lists: {} }); one client sends
\* one request after the other
InitLists ==
    /\ env \in ListEnvs
    /\ lists = <<>>
    /\ Start /\ NoImage /\ NoListRequest /\ NoCallback /\ NoQuery

NextLists ==
    \/ ListRequest("a")
    \/ ListLoaded("a")
    \/ ListSaved("a")
    \/ ListAgain("a")

SpecLists == InitLists /\ [][NextLists]_vars

\* two clients send one request each to a store of one list of one item
SharedStore == [n \in {"classics"} |-> <<[source |-> "tvdb", id |-> "81189"]>>]
InitRace ==
    /\ env \in { e \in ListEnvs : ~Truthy(e.BASIC_AUTH_USER) }
    /\ lists = SharedStore
    /\ Start /\ NoImage /\ NoListRequest /\ NoCallback /\ NoQuery

NextRace ==
    \/ \E c \in Clients : ListRequest(c)
    \/ \E c \in Clients : ListLoaded(c)
    \/ \E c \in Clients : ListSaved(c)

SpecRace == InitRace /\ [][NextRace]_vars

(***************************************************************************)
(* radarrLookup and sonarrLookupImdb: the id put in the query               *)
(***************************************************************************)
TT        == <<"t", "t">>
ImdbColon == <<"i", "m", "d", "b", ":">>

\* the ids of imdb items: non-empty text over a letter of the prefix and
\* two digits
Ids == UNION { [1..k -> {"t", "0", "1"}] : k \in 1..MaxIdLen }

\* the prefix put in front whatever the id starts with
AlwaysPrefixed(cs) == TT \o cs
\* const id = imdbId.startsWith('tt') ? imdbId : `tt${imdbId}`
radarrLookupId(cs) == IF StartsWith(cs, TT) THEN cs ELSE TT \o cs

\* const val = imdbId.startsWith('tt') ? `imdb:${imdbId}` : `imdb:tt${imdbId}`
sonarrLookupVal(cs) ==
    IF StartsWith(cs, TT) THEN ImdbColon \o cs ELSE ImdbColon \o TT \o cs

\* an imdb item is about to be looked up
InitId ==
    /\ env \in { e \in ListEnvs : ~Truthy(e.BASIC_AUTH_USER) }
    /\ lists = <<>>
    /\ Start /\ NoImage /\ NoListRequest /\ NoCallback
    /\ qpc = "idle" /\ imdbId \in Ids /\ sent = Undefined

\* radarrLookup(imdbId) issues GET /api/v3/movie/lookup/imdb?imdbid=id
radarrLookup ==
    /\ qpc = "idle"
    /\ sent' = Chars(radarrLookupId(imdbId))
    /\ qpc' = "radarr"
    /\ UNCHANGED <<env, lists, imdbId, svars, avars, ivars, lvars, bvars>>

\* sonarrLookupImdb(imdbId) issues GET /api/v3/series/lookup?term=val
sonarrLookupImdb ==
    /\ qpc = "idle"
    /\ sent' = Chars(sonarrLookupVal(imdbId))
    /\ qpc' = "sonarr"
    /\ UNCHANGED <<env, lists, imdbId, svars, avars, ivars, lvars, bvars>>

NextId ==
    \/ radarrLookup
    \/ sonarrLookupImdb

SpecId == InitId /\ [][NextId]_vars

(***************************************************************************)
(* A sync with a list request in flight                                     *)
(***************************************************************************)
\* the store holds one list of one or two items; a sync and one list
\* request of another client may arrive in any order
InitSnap ==
    /\ env \in { e \in Envs : /\ Truthy(e.TELEGRAM_TOKEN) /\ Truthy(e.TELEGRAM_NOTIFY_CHAT_ID)
                           /\ ~Truthy(e.RADARR_ROOT) /\ ~Truthy(e.RADARR_QUALITY_PROFILE_ID)
                           /\ ~Truthy(e.BASIC_AUTH_USER) }
    /\ lists \in { [n \in {"classics"} |-> l] :
                    l \in { <<[source |-> "imdb", id |-> "tt0111161"]>>,
                            <<[source |-> "imdb", id |-> "tt0111161"],
                              [source |-> "tvdb", id |-> "81189"]>> } }
    /\ Start /\ NoImage /\ NoListRequest /\ NoCallback /\ NoQuery

NextSnap ==
    \/ Next
    \/ ListRequest("b")
    \/ ListLoaded("b")
    \/ ListSaved("b")

SpecSnap == InitSnap /\ [][NextSnap]_vars

(***************************************************************************)
(* bot.js: the callback_query handler, one action per await                 *)
(***************************************************************************)
\* query.data: absent, empty, AR|<tmdbId>, AS|<tvdbId>, AS|<title>, an action
\* without payload, and an action the bot does not know
CallbackData ==
    { Undefined, Chars(<<>>),
      Chars(<<"A", "R", "|", "2">>), Chars(<<"A", "S", "|", "8">>),
      Chars(<<"A", "S", "|", "b">>), Chars(<<"A", "R">>),
      Chars(<<"X", "|", "2">>) }

\* const [action] = data.split('|'): the text before the first '|'
CallbackAction(cs) ==
    LET pipes == { i \in 1..Len(cs) : cs[i] = "|" } IN
    IF pipes = {} THEN cs
    ELSE SubSeq(cs, 1, (CHOOSE i \in pipes : \A j \in pipes : i <= j) - 1)

\* what api.post resolves or rejects with: r.data of the server's answers
\* (record standing for movie / series), a payload that says neither added
\* nor exists, an HTTP failure and a transport failure
BotPostAnswers ==
    { Ok(Added(Stored(Tmdb))), Ok(Exists(Stored(Tmdb))), Ok(Exists(Undefined)),
      Ok(NoResponse), HttpErr(AddFailed), NetErr }

\* the bot is polling; no callback query has arrived
InitBot ==
    /\ env \in { e \in ListEnvs : ~Truthy(e.BASIC_AUTH_USER) }
    /\ lists = <<>>
    /\ Start /\ NoImage /\ NoListRequest /\ NoCallback /\ NoQuery

\* a callback query arrives: the answer for missing data, the first message
\* of an add, or the two answers for an unknown action (the first of them
\* not awaited and not followed by a return)
CallbackQuery ==
    /\ bpc = "idle"
    /\ \E d \in CallbackData :
        /\ bdata' = d
        /\ IF ~Truthy(d)
           THEN /\ bcalls' = Issue(<<>>, "answerCallbackQuery")
                /\ bpc' = "done"
           ELSE IF CallbackAction(d.cs) \in {<<"A", "R">>, <<"A", "S">>}
           THEN /\ bcalls' = Issue(<<>>, "sendMessage Adding")
                /\ bpc' = "adding"
           ELSE /\ bcalls' = Issue(Issue(<<>>, "answerCallbackQuery"), "answerCallbackQuery")
                /\ bpc' = "answering"
    /\ UNCHANGED <<env, lists, svars, avars, ivars, lvars, qvars>>

\* the message "Adding ..." is sent, then api.post; a failed send is caught
CallbackAddingSent ==
    /\ bpc = "adding"
    /\ \E a \in SendAnswers :
        IF a.t = "ok"
        THEN /\ bcalls' = Issue(Answer(bcalls, a),
                                IF CallbackAction(bdata.cs) = <<"A", "R">>
                                THEN "POST /api/add/movie" ELSE "POST /api/add/series")
             /\ bpc' = "posting"
        ELSE /\ bcalls' = Issue(Answer(bcalls, a), "sendMessage Failed")
             /\ bpc' = "failing"
    /\ UNCHANGED <<env, lists, bdata, svars, avars, ivars, lvars, qvars>>

\* api.post returns: the message for added, exists or another payload; a
\* rejection, or the title of a record that is not there, is caught
CallbackPostReturn ==
    /\ bpc = "posting"
    /\ \E a \in BotPostAnswers :
        IF a.t = "ok" /\ ((a.data.added \/ a.data.reason = Str("exists"))
                            => a.data.record # Undefined)
        THEN /\ bcalls' = Issue(Answer(bcalls, a), "sendMessage Result")
             /\ bpc' = "reporting"
        ELSE /\ bcalls' = Issue(Answer(bcalls, a), "sendMessage Failed")
             /\ bpc' = "failing"
    /\ UNCHANGED <<env, lists, bdata, svars, avars, ivars, lvars, qvars>>

\* the message with the result is sent, then await bot.answerCallbackQuery(id)
CallbackResultSent ==
    /\ bpc = "reporting"
    /\ \E a \in SendAnswers :
        IF a.t = "ok"
        THEN /\ bcalls' = Issue(Answer(bcalls, a), "answerCallbackQuery")
             /\ bpc' = "answering"
        ELSE /\ bcalls' = Issue(Answer(bcalls, a), "sendMessage Failed")
             /\ bpc' = "failing"
    /\ UNCHANGED <<env, lists, bdata, svars, avars, ivars, lvars, qvars>>

\* await bot.answerCallbackQuery(id) settles: the handler is over, or the
\* rejection is caught
CallbackAnswered ==
    /\ bpc = "answering"
    /\ \E a \in SendAnswers :
        IF a.t = "ok"
        THEN /\ bcalls' = Answer(bcalls, a)
             /\ bpc' = "done"
        ELSE /\ bcalls' = Issue(Answer(bcalls, a), "sendMessage Failed")
             /\ bpc' = "failing"
    /\ UNCHANGED <<env, lists, bdata, svars, avars, ivars, lvars, qvars>>

\* catch: the message "Failed to add" is sent, then the answer with the text
\* Error; a failed send leaves the handler through its rejection
CallbackFailedSent ==
    /\ bpc = "failing"
    /\ \E a \in SendAnswers :
        IF a.t = "ok"
        THEN /\ bcalls' = Issue(Answer(bcalls, a), "answerCallbackQuery")
             /\ bpc' = "answeringError"
        ELSE /\ bcalls' = Answer(bcalls, a)
             /\ bpc' = "done"
    /\ UNCHANGED <<env, lists, bdata, svars, avars, ivars, lvars, qvars>>

\* the answer issued in the catch settles
CallbackErrorAnswered ==
    /\ bpc = "answeringError"
    /\ \E a \in SendAnswers :
        /\ bcalls' = Answer(bcalls, a)
        /\ bpc' = "done"
    /\ UNCHANGED <<env, lists, bdata, svars, avars, ivars, lvars, qvars>>

NextBot ==
    \/ CallbackQuery
    \/ CallbackAddingSent
    \/ CallbackPostReturn
    \/ CallbackResultSent
    \/ CallbackAnswered
    \/ CallbackFailedSent
    \/ CallbackErrorAnswered

SpecBot == InitBot /\ [][NextBot]_vars

(***************************************************************************)
(* Properties                                                               *)
(***************************************************************************)
\* an item has been finished and its outcome is the last of results;
\* calls, movie, body and error still describe that item
Finished    == spc \in {"loop", "done"} /\ idx > 1
LastItem    == list[idx - 1]
LastOutcome == results[idx - 1]

PostOps   == {"POST radarr movie", "POST sonarr series"}
LookupOps == {"GET radarr movie/lookup/imdb", "GET radarr movie/lookup/tmdb",
              "GET sonarr series/lookup"}
DefaultOps == {"GET radarr rootfolder", "GET radarr qualityprofile",
               "GET sonarr rootfolder", "GET sonarr qualityprofile"}
SecondaryOps == {"GET radarr movie?tmdbId", "GET radarr movie/lookup?term",
                 "GET radarr movie", "GET sonarr series"}

\* the rejection says "already exists": a known error code or the message pattern
SaysExists(err) ==
    /\ err.t = "throw"
    /\ \E i \in 1..Len(AsArray(err.response)) :
         LET e == AsArray(err.response)[i] IN
         \/ e.errorCode \in {"MovieExistsValidator", "SeriesExistsValidator"}
         \/ AlreadyBeenAdded(e.errorMessage)

\* the outcome is an error: not a success, and none of the other reasons
IsErrorOutcome(o) ==
    /\ ~o.ok
    /\ o.reason \notin {Undefined, Str("not found"), Str("unsupported"), Str("exists")}

\* C1: a sync of a stored list answers with one outcome per item of the
\* list, the i-th outcome carrying the i-th item, whatever the services
\* answered; while the sync runs, results holds the outcomes of the items
\* already processed, in list order.
C1_OutcomePerItemInOrder ==
    name \in DOMAIN lists =>
        /\ Len(results) = idx - 1
        /\ \A i \in 1..Len(results) : results[i].item = lists[name][i]
        /\ spc = "done" =>
            /\ sresp.status = 200
            /\ Len(sresp.results) = Len(lists[name])
            /\ \A i \in 1..Len(sresp.results) : sresp.results[i].item = lists[name][i]

C1_Witness ==
    /\ spc = "done" /\ target = "radarr" /\ sresp.status = 200
    /\ Len(sresp.results) = MaxItems
    /\ sresp.results[1].item # sresp.results[2].item
    /\ ~sresp.results[1].ok /\ sresp.results[1].reason = Str("Network Error")
    /\ sresp.results[2].ok

\* C2 (as claimed): an item whose lookup, default query or add call failed
\* without an "already exists" rejection has an outcome ok=false that is an
\* error, and the sync still answers with one outcome per item.
C2_TransportFailureIsError ==
    /\ Finished =>
         ((\E i \in 1..Len(calls) :
              /\ calls[i].op \in LookupOps \cup DefaultOps \cup PostOps
              /\ calls[i].ans.t = "throw"
              /\ ~SaysExists(calls[i].ans))
          => IsErrorOutcome(LastOutcome))
    /\ (spc = "done" /\ name \in DOMAIN lists) =>
         sresp.status = 200 /\ Len(sresp.results) = Len(list)

\* C3 (as claimed): an item whose add submission was rejected or failed is
\* reported as exists or as an error, never as a successful add.
C3_RejectedAddNeverOk ==
    (Finished /\ \E i \in 1..Len(calls) :
                    calls[i].op \in PostOps /\ calls[i].ans.t = "throw")
    => /\ ~(LastOutcome.ok /\ LastOutcome.reason = Undefined)
       /\ LastOutcome.reason = Str("exists") \/ IsErrorOutcome(LastOutcome)

\* C4 (as claimed): a direct movie add whose rejection carries an "already
\* exists" entry answers exists; one whose rejection carries only unrelated
\* validation errors answers an error, no secondary query being issued.
C4_MovieExistsRejectionIsExists ==
    (apc = "done" /\ areq.kind = "movie" /\ aerr.t = "throw"
       /\ NonEmptyArray(aerr.response)) =>
        IF SaysExists(aerr)
        THEN aresp.status = 200 /\ aresp.reason = Str("exists")
        ELSE aresp.status = 500 /\ Ops(acalls) \cap SecondaryOps = {}

\* C5 (as claimed): in a sync to the movie target, a rejection that says
\* "already exists" while no secondary query finds a stored record (one of
\* them fails, or all three return nothing) still gives exists, without a
\* record, and not an error.
C5_ExistsWithoutRecord ==
    (Finished /\ target = "radarr" /\ SaysExists(error)
       /\ LET last == calls[Len(calls)] IN
          /\ last.op \in SecondaryOps
          /\ \/ last.ans.t = "throw"
             \/ \A i \in 1..Len(calls) :
                   calls[i].op \in SecondaryOps => calls[i].ans = Ok(Arr(<<>>)))
    => /\ ~IsErrorOutcome(LastOutcome)
       /\ LastOutcome.reason = Str("exists")
       /\ LastOutcome.record = Undefined

\* C6 (as claimed): a direct series add whose rejection does not say
\* "already exists" never queries the series inventory and answers an
\* error, not exists.
C6_SeriesReconcilesOnlyOnExists ==
    (areq.kind = "series" /\ aerr.t = "throw" /\ ~SaysExists(aerr)) =>
        /\ "GET sonarr series" \notin Ops(acalls)
        /\ apc = "done" => aresp.status = 500 /\ aresp.reason # Str("exists")

\* the answers of a lookup that hold no candidate
NoCandidate == { Ok(Arr(<<>>)), Ok(Str("")) }

C8_LookupFailureIsNotFound ==
    (Finished /\ calls # <<>> /\ calls[1].op \in LookupOps /\ calls[1].ans = NetErr) =>
        LastOutcome = [item |-> LastItem, ok |-> FALSE,
                       reason |-> Str("not found"), record |-> Undefined]

\* the source/target pairs that have no mapping
UnsupportedPair(t, item) ==
    \/ t = "sonarr" /\ item.source = "tmdb"
    \/ item.source \notin {"imdb", "tmdb"}

\* C9: an item of a tmdb source against the series target, or of a source
\* other than imdb and tmdb, is finished with reason 'unsupported' and no
\* call at all is issued for it: calls are in flight only for the other items.
C9_UnsupportedWithoutCalls ==
    /\ (Finished /\ UnsupportedPair(target, LastItem)) =>
          /\ LastOutcome = [item |-> LastItem, ok |-> FALSE,
                            reason |-> Str("unsupported"), record |-> Undefined]
          /\ calls = <<>>
    /\ spc \notin {"idle", "loop", "done"} => ~UnsupportedPair(target, Item)

C9_Witness ==
    /\ Finished /\ target = "sonarr" /\ LastItem.source = "tmdb"
    /\ LastOutcome.reason = Str("unsupported") /\ calls = <<>>
    /\ idx = 3 /\ list[1].source = "imdb" /\ results[1].ok

\* the first value a default query returned, if any
ServiceFirst(ans, field) ==
    IF ans.t = "ok" THEN Prop(First(AsArray(ans.data)), field) ELSE Undefined

\* C10 (as claimed): when both default queries of a direct add are
\* answered, the storage root and the quality tier of the add request are
\* the caller's override, else the first value the service returned, else
\* the configured environment value (else the built-in default).
C10_OverrideServiceFallback ==
    (abody # Undefined /\ acalls[1].ans.t = "ok" /\ acalls[2].ans.t = "ok") =>
        LET movieAdd == areq.kind = "movie"
            envRoot  == IF movieAdd THEN env.RADARR_ROOT ELSE env.SONARR_ROOT
            envQp    == IF movieAdd THEN env.RADARR_QUALITY_PROFILE_ID
                        ELSE env.SONARR_QUALITY_PROFILE_ID
            builtIn  == IF movieAdd THEN Str("/movies") ELSE Str("/tv")
        IN  /\ abody.rootFolderPath =
                 Or(areq.rootFolderPath,
                    Or(ServiceFirst(acalls[1].ans, "path"), Or(envRoot, builtIn)))
            /\ abody.qualityProfileId =
                 Number(Or(areq.qualityProfileId,
                           Or(ServiceFirst(acalls[2].ans, "id"), Or(envQp, Num(1)))))

\* C11 (as claimed): in a sync, an item one of whose default queries failed
\* still has its add request built and submitted.
C11_DefaultFailureStillSubmits ==
    (Finished /\ \E i \in 1..Len(calls) :
                    calls[i].op \in DefaultOps /\ calls[i].ans.t = "throw")
    => /\ body # Undefined
       /\ Ops(calls) \cap PostOps # {}

\* C12 (as claimed): every add request built by a sync carries a storage
\* root that is a non-empty path and a quality tier id that is a positive
\* integer, whatever the services answered and whatever is configured.
C12_RootAndTierAlwaysSet ==
    body # Undefined =>
        /\ body.rootFolderPath.t = "string" /\ body.rootFolderPath.s # ""
        /\ body.qualityProfileId \in Nat \ {0}

\* C13 (as claimed): an item whose add submission succeeded has the outcome
\* ok=true with no reason, carrying the record the service stored.
C13_AddedCarriesRecord ==
    (Finished /\ calls # <<>> /\ calls[Len(calls)].op \in PostOps
       /\ calls[Len(calls)].ans.t = "ok")
    => /\ LastOutcome.ok /\ LastOutcome.reason = Undefined
       /\ LastOutcome.record = calls[Len(calls)].ans.data

\* C14 (as claimed): in a sync to the movie target, an item whose title the
\* target already holds (the add is rejected as "already exists" and the
\* query by tmdbId returns the stored movie) has the outcome exists.
C14_PresentTitleIsExists ==
    (Finished /\ target = "radarr" /\ SaysExists(error)
       /\ \E i \in 1..Len(calls) :
            /\ calls[i].op = "GET radarr movie?tmdbId"
            /\ calls[i].ans = Ok(Arr(<<Stored(Tmdb)>>)))
    => ~LastOutcome.ok /\ LastOutcome.reason = Str("exists")

\* C18: within a sync the items are processed one at a time.  A call is
\* issued only for the item at idx, all earlier outcomes being in results,
\* and only the last two calls (the joined pair of default queries) can be
\* in flight together;
\* an outcome is appended for the item at idx only, when none of its calls
\* is still in flight, and only then does the loop move on; while a call
\* is in flight the handler is inside the iteration of that one item.
C18_OneItemAtATime ==
    [][ /\ (calls' # calls /\ calls' # <<>> /\ calls'[Len(calls')].ans = Pending) =>
             /\ Len(results) = idx - 1 /\ idx <= Len(list)
             /\ results' = results /\ idx' = idx
             /\ \A i \in 1..(Len(calls') - 2) : calls'[i].ans # Pending
        /\ results' # results =>
             /\ Len(results') = Len(results) + 1
             /\ results' = Append(results, results'[Len(results')])
             /\ results'[Len(results')].item = list[idx]
             /\ idx' = idx + 1
             /\ \A i \in 1..Len(calls') : calls'[i].ans # Pending
        /\ (\E i \in 1..Len(calls) : calls[i].ans = Pending) =>
             /\ spc \notin {"idle", "loop", "done"}
             /\ Len(results) = idx - 1 /\ idx <= Len(list)
      ]_vars

C18_Witness ==
    /\ spc = "post" /\ idx = 2 /\ Len(results) = 1 /\ results[1].ok
    /\ calls[Len(calls)].ans = Pending
    /\ list[1] # list[2]

\* the credentials of the notification are both configured
Credentials == Truthy(env.TELEGRAM_TOKEN) /\ Truthy(env.TELEGRAM_NOTIFY_CHAT_ID)

\* C15 (as claimed): with the notification configured, a direct add that
\* answered added or exists has made exactly one notification attempt.
C15_OneNotificationPerAddedOrExists ==
    (apc = "done" /\ aresp.status = 200 /\ Credentials) => notes = 1

\* the add submission of the direct add, once it has answered
Submission == { i \in 1..Len(acalls) : acalls[i].op \in PostOps /\ acalls[i].ans.t = "ok" }

\* C16: the notification never changes the result of a direct add.  When
\* the token or the chat id is missing no send is attempted; a direct add
\* whose submission succeeded answers added with the stored record, whether
\* the send succeeded, failed or was never made; and a handler never ends
\* in its error answer because of the send.
C16_NotificationNeverChangesResult ==
    /\ ~Credentials => notes = 0 /\ "POST telegram sendMessage" \notin Ops(acalls)
    /\ notes <= 1
    /\ (apc = "done" /\ Submission # {}) =>
          \A i \in Submission : aresp = Added(acalls[i].ans.data)

C16_Witness ==
    /\ apc = "done" /\ areq.kind = "movie" /\ Credentials /\ acalls # <<>>
    /\ acalls[Len(acalls)] = [op |-> "POST telegram sendMessage", ans |-> NetErr]
    /\ aresp.status = 200 /\ aresp.added /\ aresp.record = Stored(Tmdb)

\* C17 (as claimed): the add request of a direct add carries the search
\* flag of its target: addOptions.searchForMovie = true for a movie,
\* addOptions.searchForMissingEpisodes = true for a series.
C17_SearchFlagAlwaysSet ==
    abody # Undefined =>
        /\ "addOptions" \in DOMAIN abody
        /\ abody.addOptions = IF areq.kind = "movie"
                              THEN [searchForMovie |-> TRUE]
                              ELSE [searchForMissingEpisodes |-> TRUE]

\* the fields an image is read from
ImageFieldNames ==
    {"remoteUrl", "url", "coverUrl", "posterPath", "backdropPath", "path", "imagePath"}

\* a root-relative path: one slash at its start, no white space in it
RootRelative(cs) ==
    /\ StartsWith(cs, Slash) /\ ~StartsWith(cs, Slashes)
    /\ \A i \in 1..Len(cs) : cs[i] # " "

\* C19: for a record whose only image field is posterPath, holding a
\* root-relative path such as "/x.jpg", makeImageUrlsArray returns exactly
\* one URL: the image CDN base followed by that path.
C19_PosterPathGivesOneCdnUrl ==
    (ipc = "done" /\ maybeImgs.t = "object"
       /\ DOMAIN maybeImgs \cap ImageFieldNames = {"posterPath"}
       /\ maybeImgs.posterPath.t = "chars" /\ RootRelative(maybeImgs.posterPath.cs))
    => urls = <<Chars(CdnBase \o maybeImgs.posterPath.cs)>>

C19_Witness ==
    /\ ipc = "done" /\ maybeImgs = Poster(XJpg)
    /\ Len(urls) = 1 /\ urls[1].t = "chars"
    /\ SubSeq(urls[1].cs, Len(urls[1].cs) - Len(XJpg) + 1, Len(urls[1].cs)) = XJpg

\* an element that is null, empty, or of an unexpected shape: neither a
\* string nor a record holding a string in an image field nor a collection
\* that starts with one of these
Hollow(e) ==
    \/ e.t \in {"null", "undefined"}
    \/ e.t = "chars" /\ Trim(e.cs) = <<>>
    \/ e.t = "object" /\ \A f \in DOMAIN e \cap ImageFieldNames : e[f].t # "chars"
    \/ e.t = "array" /\ (e.elems = <<>> \/ e.elems[1].t = "null")

\* C20 (as claimed): for a collection, makeImageUrlsArray returns the
\* normalisations of the elements that are not hollow, in the order of the
\* input and with duplicates kept, every one of them a non-empty URL; the
\* hollow elements are dropped.
C20_CollectionKeepsOrderDropsHollow ==
    (ipc = "done" /\ maybeImgs.t = "array") =>
        LET elems   == maybeImgs.elems
            kept    == { i \in 1..Len(elems) : ~Hollow(elems[i]) }
            Rank(i) == Cardinality({ j \in kept : j <= i })
        IN  /\ Len(urls) = Cardinality(kept)
            /\ \A i \in kept : urls[Rank(i)] = makeImageUrl(elems[i])
            /\ \A k \in 1..Len(urls) : urls[k].t = "chars" /\ urls[k].cs # <<>>

(***************************************************************************)
(* The list store                                                           *)
(***************************************************************************)
\* the request of the one client of SpecLists and its list name
Req     == lreq["a"]
ReqName == lreq["a"].name.s

\* every list other than n is as it was, and no name came or went
OthersKept(n) ==
    /\ DOMAIN lists' = DOMAIN lists
    /\ \A m \in DOMAIN lists \ {n} : lists'[m] = lists[m]

\* C21: list names are unique in the store. A create-list request whose
\* name is in the store when the handler loads it, even with an empty list,
\* is answered 400 and the store stays as it is; the store changes under a
\* create-list request only by gaining the new name with an empty list, all
\* other lists kept; no name ever leaves the store, and no other request
\* adds one.
C21_ListNamesUnique ==
    [][ /\ (lpc["a"] = "loading" /\ Req.op = "create" /\ ReqName \in DOMAIN lists)
            => (lpc'["a"] = "done" /\ lresp'["a"] = 400 /\ lists' = lists)
        /\ (lists' # lists /\ Req.op = "create")
            => /\ ReqName \notin DOMAIN lists
               /\ DOMAIN lists' = DOMAIN lists \cup {ReqName}
               /\ lists'[ReqName] = <<>>
               /\ \A m \in DOMAIN lists : lists'[m] = lists[m]
        /\ DOMAIN lists \subseteq DOMAIN lists'
        /\ (lists' # lists /\ Req.op # "create") => DOMAIN lists' = DOMAIN lists
      ]_vars

\* a create-list request for an existing empty list has been rejected, next
\* to a second list that holds items
C21_Witness ==
    /\ lpc["a"] = "done" /\ Req.op = "create" /\ lresp["a"] = 400
    /\ Truthy(Req.name)
    /\ DOMAIN lists = ListNames
    /\ lists[ReqName] = <<>>
    /\ \E m \in DOMAIN lists : lists[m] # <<>>

\* C22: every stored item has a non-empty source and a non-empty id. An
\* add-item request without a source or without an id (absent or empty) is
\* answered 400 at once and the store stays as it is; the store changes
\* under an add-item request only when it is answered ok, by one item, the
\* lower-cased source and the id of the request, appended at the end of the
\* named list, all other lists kept.
C22_ItemsCarrySourceAndId ==
    /\ [](\A n \in DOMAIN lists : \A i \in 1..Len(lists[n]) :
            lists[n][i].source # "" /\ lists[n][i].id # "")
    /\ [][ /\ ( /\ lpc["a"] = "idle" /\ lpc'["a"] # "idle" /\ lreq'["a"].op = "add"
                /\ (~Truthy(lreq'["a"].source) \/ ~Truthy(lreq'["a"].id)) )
                => (lpc'["a"] = "done" /\ lresp'["a"] = 400 /\ lists' = lists)
           /\ (lists' # lists /\ Req.op = "add")
                => /\ lresp'["a"] = 200
                   /\ ReqName \in DOMAIN lists
                   /\ lists'[ReqName] =
                        Append(lists[ReqName],
                               [source |-> LowerCase[Req.source.s], id |-> Req.id.s])
                   /\ OthersKept(ReqName)
         ]_vars

\* an add-item request has been answered ok and its item is the last of a
\* list of two, next to another list
C22_Witness ==
    /\ lpc["a"] = "done" /\ Req.op = "add" /\ lresp["a"] = 200
    /\ DOMAIN lists = ListNames
    /\ Len(lists[ReqName]) = 2
    /\ lists[ReqName][2] = [source |-> "imdb", id |-> "tt0111161"]
    /\ lists[ReqName][1] # lists[ReqName][2]

\* the index texts that are numerals
Numerals == {"0", "1", "7", "-1"}
NumeralOf(s) == CASE s = "0" -> 0 [] s = "1" -> 1 [] s = "7" -> 7 [] OTHER -> 0 - 1

\* C26 (as claimed): the store changes under a delete-item request only when
\* the index is a numeral i with 0 <= i < length, and then exactly the item
\* at position i leaves the named list, the other items keep their order and
\* every other list is kept; a delete-item request with an index that is no
\* numeral, is negative or out of range, or for an unknown list, is answered
\* with an error and never changes the store; a create-list request changes
\* no list's items.
C26_DeleteByIndex ==
    [][ /\ (lists' # lists /\ Req.op = "delete")
            => /\ ReqName \in DOMAIN lists
               /\ Req.index \in Numerals
               /\ NumeralOf(Req.index) >= 0
               /\ NumeralOf(Req.index) < Len(lists[ReqName])
               /\ lists'[ReqName] =
                    [k \in 1..(Len(lists[ReqName]) - 1) |->
                        IF k <= NumeralOf(Req.index) THEN lists[ReqName][k]
                        ELSE lists[ReqName][k + 1]]
               /\ OthersKept(ReqName)
        /\ ( /\ lpc["a"] = "loading" /\ Req.op = "delete"
             /\ \/ ReqName \notin DOMAIN lists
                \/ Req.index \notin Numerals
                \/ NumeralOf(Req.index) < 0
                \/ NumeralOf(Req.index) >= Len(lists[ReqName]) )
            => (lpc'["a"] = "done" /\ lresp'["a"] \in {400, 404} /\ lists' = lists)
        /\ (lists' # lists /\ Req.op = "create")
            => \A m \in DOMAIN lists : lists'[m] = lists[m]
      ]_vars

\* C29 (as claimed, for the list endpoints): a handler that is over has sent
\* a response.
C29_EveryRequestAnswered ==
    \A c \in Clients : lpc[c] \in {"done", "hung"} => lresp[c] # 0

\* C30 (as claimed, for the list endpoints): with BASIC_AUTH_USER configured,
\* a request without the matching user name and password is answered 401 and
\* its handler loads nothing and writes nothing.
C30_CredentialsChecked ==
    \A c \in Clients :
        (lpc[c] # "idle" /\ requireBasicAuth(lreq[c].auth) = "401")
            => (lpc[c] = "done" /\ lresp[c] = 401 /\ ldata[c] = Undefined)

\* the requests of kind op for list n that were answered ok
Oks(op, n) ==
    { c \in Clients : /\ lpc[c] = "done" /\ lresp[c] = 200
                      /\ lreq[c].op = op /\ lreq[c].name = Str(n) }
\* the length of list n before the two requests
LengthBefore(n) == IF n \in DOMAIN SharedStore THEN Len(SharedStore[n]) ELSE 0

\* C28 (as claimed): when two requests, one of them an add-item, have both
\* been answered ok, the store reflects both: every created list is there,
\* every added item is in its list, and every list has as many items as it
\* had before, plus one per add-item and minus one per delete-item.
C28_NoLostUpdate ==
    ( /\ \A c \in Clients : lpc[c] = "done" /\ lresp[c] = 200
      /\ \E c \in Clients : lreq[c].op = "add" )
        => \A n \in ListNames :
            /\ Oks("create", n) # {} => n \in DOMAIN lists
            /\ n \in DOMAIN lists =>
                /\ Len(lists[n]) = LengthBefore(n) + Cardinality(Oks("add", n))
                                      - Cardinality(Oks("delete", n))
                /\ \A c \in Oks("add", n) :
                     \E i \in 1..Len(lists[n]) :
                        lists[n][i] = [source |-> LowerCase[lreq[c].source.s],
                                       id |-> lreq[c].id.s]

(***************************************************************************)
(* The search for the stored movie and the order of the calls               *)
(***************************************************************************)
ById   == "GET radarr movie?tmdbId"
ByTerm == "GET radarr movie/lookup?term"
AllMovies == "GET radarr movie"

\* the answer of the first attempt holds no record
ReturnedNothing(a) == a.t = "ok" /\ ~(a.data.t = "array" /\ a.data.elems # <<>>)
\* the answer of the lookup holds an entry with the tmdbId searched for
Matched(a) ==
    /\ a.t = "ok" /\ a.data.t = "array"
    /\ \E k \in 1..Len(a.data.elems) : SameTmdb(a.data.elems[k], RecTmdbId)

\* the first attempt follows the rejected add, the lookup follows a first
\* attempt that returned nothing, nothing follows a first attempt that found
\* a record, nothing follows the fetch of all movies, and there are at most
\* three queries after the rejection
ChainOrdered ==
    /\ \A i \in 1..Len(calls) :
        /\ calls[i].op = ById
            => i > 1 /\ calls[i - 1].op = "POST radarr movie" /\ calls[i - 1].ans.t = "throw"
        /\ calls[i].op = ByTerm
            => i > 1 /\ calls[i - 1].op = ById /\ ReturnedNothing(calls[i - 1].ans)
        /\ (calls[i].op = ById /\ ~ReturnedNothing(calls[i].ans) /\ calls[i].ans # Pending)
            => i = Len(calls)
        /\ calls[i].op = AllMovies => i = Len(calls) /\ i > 1 /\ calls[i - 1].op = ByTerm
    /\ Cardinality({ i \in 1..Len(calls) : calls[i].op \in SecondaryOps }) <= 3

\* C23 (as claimed): the chain is ordered and bounded, all movies are
\* fetched only if the lookup produced no match, and no query follows a
\* lookup that produced a match.
C23_FirstSuccessWins ==
    /\ ChainOrdered
    /\ \A i \in 1..Len(calls) :
        /\ calls[i].op = AllMovies
            => calls[i - 1].ans.t = "ok" /\ ~Matched(calls[i - 1].ans)
        /\ (calls[i].op = ByTerm /\ Matched(calls[i].ans)) => i = Len(calls)

\* C23 (amended): the chain is ordered and bounded: the first attempt (GET
\* movie filtered by tmdbId) comes first, right after the rejected add; the
\* lookup is issued only if the first attempt returned nothing; all movies
\* are fetched only after the lookup has answered, whether it produced a
\* match or not; no query follows a first attempt that found a record and
\* none follows the fetch of all movies; at most three queries are issued
\* per rejection.
C23_BoundedOrderedChain ==
    /\ ChainOrdered
    /\ \A i \in 1..Len(calls) :
        calls[i].op = AllMovies => calls[i - 1].ans.t = "ok"

\* an item is finished after a lookup that matched and the fetch of all
\* movies that followed it
C23_Witness ==
    /\ Finished /\ Len(calls) > 2
    /\ calls[Len(calls)].op = AllMovies /\ calls[Len(calls)].ans.t = "ok"
    /\ calls[Len(calls) - 1].op = ByTerm /\ Matched(calls[Len(calls) - 1].ans)
    /\ calls[Len(calls) - 2].op = ById

\* C24 (as claimed): whenever an add has been submitted, the first call of
\* the item was the lookup, and the root folder query and the quality
\* profile query of the same service were issued after it and before the
\* add.
C24_ResolverBeforeSubmit ==
    \A i \in 1..Len(calls) :
        calls[i].op \in PostOps =>
            LET root == IF calls[i].op = "POST radarr movie"
                        THEN "GET radarr rootfolder" ELSE "GET sonarr rootfolder"
                tier == IF calls[i].op = "POST radarr movie"
                        THEN "GET radarr qualityprofile" ELSE "GET sonarr qualityprofile"
            IN  /\ calls[1].op \in LookupOps
                /\ \E j \in 2..(i - 1) : calls[j].op = root
                /\ \E j \in 2..(i - 1) : calls[j].op = tier

(***************************************************************************)
(* The id sent to the catalog                                               *)
(***************************************************************************)
\* the id part of the query parameter: all of it for Radarr, what follows
\* "imdb:" for Sonarr
SentId ==
    IF qpc = "sonarr" THEN SubSeq(sent.cs, Len(ImdbColon) + 1, Len(sent.cs)) ELSE sent.cs

\* C27: for the movie and the series lookup alike, the id sent is the
\* item's id when that starts with "tt" and "tt" followed by the item's id
\* otherwise (the series lookup sends it after "imdb:"): the id sent starts
\* with "tt" and ends with the item's id, it is longer than the item's id by
\* the two letters of the prefix or by nothing, by nothing exactly when the
\* item's id starts with "tt", and normalising the id sent again changes
\* nothing.
C27_ImdbIdNormalized ==
    qpc # "idle" =>
        LET added == Len(SentId) - Len(imdbId) IN
        /\ qpc = "sonarr" => SubSeq(sent.cs, 1, Len(ImdbColon)) = ImdbColon
        /\ Len(SentId) >= 2 /\ SentId[1] = "t" /\ SentId[2] = "t"
        /\ added \in {0, 2}
        /\ SubSeq(SentId, added + 1, Len(SentId)) = imdbId
        /\ added = 0 <=> (Len(imdbId) >= 2 /\ imdbId[1] = "t" /\ imdbId[2] = "t")
        /\ radarrLookupId(SentId) = SentId
        /\ sonarrLookupVal(SentId) = ImdbColon \o SentId

\* an id that starts with one "t" has been sent to Radarr with the prefix
\* in front
C27_Witness ==
    /\ qpc = "radarr" /\ imdbId = <<"t", "0", "1">>
    /\ sent = Chars(<<"t", "t", "t", "0", "1">>)

(***************************************************************************)
(* The sync and the list store                                              *)
(***************************************************************************)
\* C25: a sync never writes the list store and works on the list as loaded
\* when it starts: no step of the sync handler changes the store; the list
\* of the sync is the stored list at the moment of loadData and stays as it
\* is until the sync is over, whatever list requests write meanwhile; the
\* outcomes follow that list, item by item and in its order, and so does
\* the response.
C25_SyncWorksOnLoadedList ==
    /\ [][ /\ svars' # svars => lists' = lists
           /\ (spc = "idle" /\ spc' = "loop") => list' = lists[name']
           /\ spc # "idle" => list' = list
         ]_vars
    /\ [](spc # "idle" =>
            /\ Len(results) = idx - 1
            /\ \A i \in 1..Len(results) : results[i].item = list[i]
            /\ (spc = "done" /\ sresp.status = 200) =>
                /\ Len(sresp.results) = Len(list)
                /\ \A i \in 1..Len(list) : sresp.results[i].item = list[i])

\* a sync has answered for the one item it loaded while an add-item request,
\* answered ok, appended a second item to the stored list
C25_Witness ==
    /\ spc = "done" /\ sresp.status = 200 /\ target = "radarr"
    /\ lpc["b"] = "done" /\ lresp["b"] = 200 /\ lreq["b"].op = "add"
    /\ Len(list) = 1 /\ Len(lists[name]) = 2
    /\ Len(sresp.results) = 1 /\ sresp.results[1].item = list[1]

(***************************************************************************)
(* The bot's callback handler                                               *)
(***************************************************************************)
\* C31 (as claimed): when the callback handler is over, answerCallbackQuery
\* has been called exactly once for the query, whatever path the handler
\* took.
C31_AnsweredExactlyOnce ==
    bpc = "done" =>
        Cardinality({ i \in 1..Len(bcalls) : bcalls[i].op = "answerCallbackQuery" }) = 1

====
